---- MODULE Spec2Model ----
(***************************************************************************)
(* Authentication / session core of the contacts API:                      *)
(*   services/auth.py    token codec, refresh decoding, session resolver   *)
(*   repository/users.py principal lookup and principal mutations          *)
(* Time is in whole seconds (python-jose turns datetimes into integer      *)
(* NumericDate values).                                                     *)
(***************************************************************************)
EXTENDS Integers, Sequences, FiniteSets, TLC

VARIABLES
    now,        \* the clock, seconds (datetime.utcnow())
    ticks,      \* how many times the clock has advanced (bounds the run)
    minted,     \* codec: the last create_*_token call, its arguments and token
    call,       \* codec: the last decode call, its input and its outcome
    db,         \* persistence: email -> Principal (the UserAuth rows)
    cache,      \* the shared redis store: key -> <<>> or <<entry>>
    pc,         \* per worker: where its get_current_user call stands
    bearer,     \* per worker: the email its request's token was issued for
    email,      \* per worker: the local `email`
    user,       \* per worker: the local `user`
    response,   \* what the step just taken returned or raised, if it ended a call
    commits,    \* how many Principal mutations have committed (bounds the run)
    commitAt,   \* per email: clock of the last commit to its Principal
    mail,       \* confirmation: the last send_email call and what came of it
    confirm,    \* confirmation: the last redemption of a verification token
    redeems,    \* confirmation: how many redemptions have been made
    today,      \* contacts: date.today()
    contacts,   \* contacts: the rows of the contacts table
    birthdays   \* contacts: what read_birthdays last returned

serverVars == <<db, cache, pc, bearer, email, user, response, commits, commitAt>>
confirmVars == <<mail, confirm, redeems>>
contactVars == <<today, contacts, birthdays>>
vars == <<now, ticks, minted, call, db, cache, pc, bearer, email, user, response,
          commits, commitAt, mail, confirm, redeems, today, contacts, birthdays>>

----------------------------------------------------------------------------
(* Bounds *)
MaxTicks == 2
MaxDelta == 1
MaxCommits == 1
MaxRedeems == 2
MaxContacts == 2

(* Program constants *)
ACCESS_DEFAULT_TTL == 900
CACHE_TTL == 900
REFRESH_DEFAULT_TTL == 604800
EMAIL_TOKEN_TTL == 604800
HTTP_401_UNAUTHORIZED == 401
HTTP_422_UNPROCESSABLE_ENTITY == 422
WINDOW_DAYS == 7

SECRET_KEY == "secret_key"
WrongKey == "attacker_key"

Emails == {"a@x.io"}
UnknownEmail == "ghost@x.io"
Subjects == Emails \cup {UnknownEmail}
NoneValue == "<None>"
Procs == {"w1", "w2"}

CodecSteps == {1, ACCESS_DEFAULT_TTL + 1, REFRESH_DEFAULT_TTL + 1}
ClockSteps == {1, CACHE_TTL + 1}
ConfirmSteps == {1, EMAIL_TOKEN_TTL + 1}

----------------------------------------------------------------------------
(* Python dictionaries are functions from keys to values. *)
Dict(k, v) == [x \in {k} |-> v]

DictUpdate(d, u) ==
    [k \in DOMAIN d \cup DOMAIN u |-> IF k \in DOMAIN u THEN u[k] ELSE d[k]]

(* An Optional[float] argument: <<>> is None, <<n>> is the number n. *)
NoDelta == <<>>
Truthy(expires_delta) == expires_delta /= <<>> /\ expires_delta[1] /= 0

----------------------------------------------------------------------------
(* jose.jwt: a compact token has three segments; the third is the HMAC of  *)
(* the claims under the key, modelled as the pair it is computed from.      *)
Hmac(claims, key) == <<claims, key>>

jwt_encode(claims, key) ==
    [parts |-> 3, claims |-> claims, mac |-> Hmac(claims, key)]

Malformed == [parts |-> 1, claims |-> <<>>, mac |-> <<>>]

JWTError == [ok |-> FALSE, payload |-> <<>>]

(* jwt.decode(token, key, algorithms): segment count, signature, then the   *)
(* registered claims: exp (when present) must not lie before the clock,     *)
(* sub (when present) must be a string.                                     *)
jwt_decode(token, key, t) ==
    IF token.parts /= 3 THEN JWTError
    ELSE IF token.mac /= Hmac(token.claims, key) THEN JWTError
    ELSE IF "exp" \in DOMAIN token.claims /\ token.claims["exp"] < t THEN JWTError
    ELSE IF "sub" \in DOMAIN token.claims /\ token.claims["sub"] = NoneValue
         THEN JWTError
    ELSE [ok |-> TRUE, payload |-> token.claims]

----------------------------------------------------------------------------
(* Outcomes of a call: a returned value or a raised exception. *)
Return(v) == [kind |-> "return", value |-> v]

HTTPException(status, detail, headers) ==
    [kind |-> "HTTPException", status_code |-> status, detail |-> detail,
     headers |-> headers]

KeyError(k) == [kind |-> "KeyError", key |-> k]

BearerHeader == {<<"WWW-Authenticate", "Bearer">>}

credentials_exception ==
    HTTPException(HTTP_401_UNAUTHORIZED, "Could not validate credentials",
                  BearerHeader)

----------------------------------------------------------------------------
(* Auth.create_email_token *)
create_email_token(data, t) ==
    jwt_encode(DictUpdate(data, [iat |-> t, exp |-> t + EMAIL_TOKEN_TTL]),
               SECRET_KEY)

(* Auth.create_access_token *)
create_access_token(data, expires_delta, t) ==
    LET expire == IF Truthy(expires_delta)
                  THEN t + expires_delta[1]
                  ELSE t + ACCESS_DEFAULT_TTL
    IN  jwt_encode(DictUpdate(data, [iat |-> t, exp |-> expire,
                                     scope |-> "access_token"]),
                   SECRET_KEY)

(* Auth.create_refresh_token *)
create_refresh_token(data, expires_delta, t) ==
    LET expire == IF Truthy(expires_delta)
                  THEN t + expires_delta[1]
                  ELSE t + REFRESH_DEFAULT_TTL
    IN  jwt_encode(DictUpdate(data, [iat |-> t, exp |-> expire,
                                     scope |-> "refresh_token"]),
                   SECRET_KEY)

(* get_email_from_token refusing every token that carries a scope claim. *)
get_email_from_token_scopeless(token, t) ==
    LET d == jwt_decode(token, SECRET_KEY, t)
    IN  IF ~d.ok \/ "scope" \in DOMAIN d.payload
        THEN HTTPException(HTTP_422_UNPROCESSABLE_ENTITY,
                           "Invalid token for email verification", {})
        ELSE IF "sub" \notin DOMAIN d.payload THEN KeyError("sub")
        ELSE Return(d.payload["sub"])

(* Auth.get_email_from_token *)
get_email_from_token(token, t) ==
    LET d == jwt_decode(token, SECRET_KEY, t)
    IN  IF ~d.ok
        THEN HTTPException(HTTP_422_UNPROCESSABLE_ENTITY,
                           "Invalid token for email verification", {})
        ELSE IF "sub" \notin DOMAIN d.payload THEN KeyError("sub")
        ELSE Return(d.payload["sub"])

(* decode_refresh_token with the scope comparison left out. *)
decode_refresh_token_any_scope(token, t) ==
    LET d == jwt_decode(token, SECRET_KEY, t)
    IN  IF ~d.ok
        THEN HTTPException(HTTP_401_UNAUTHORIZED,
                           "Could not validate credentials", {})
        ELSE IF "scope" \notin DOMAIN d.payload THEN KeyError("scope")
        ELSE IF "sub" \notin DOMAIN d.payload THEN KeyError("sub")
        ELSE Return(d.payload["sub"])

(* Auth.decode_refresh_token *)
decode_refresh_token(token, t) ==
    LET d == jwt_decode(token, SECRET_KEY, t)
    IN  IF ~d.ok
        THEN HTTPException(HTTP_401_UNAUTHORIZED,
                           "Could not validate credentials", {})
        ELSE IF "scope" \notin DOMAIN d.payload THEN KeyError("scope")
        ELSE IF d.payload["scope"] = "refresh_token"
             THEN IF "sub" \notin DOMAIN d.payload THEN KeyError("sub")
                  ELSE Return(d.payload["sub"])
        ELSE HTTPException(HTTP_401_UNAUTHORIZED, "Invalid scope for token", {})

(* Auth.get_current_user, the decoding part (the try block): the subject    *)
(* email, or the exception that leaves the function.                        *)
current_user_email(token, t) ==
    LET d == jwt_decode(token, SECRET_KEY, t)
    IN  IF ~d.ok THEN credentials_exception
        ELSE IF "scope" \notin DOMAIN d.payload THEN KeyError("scope")
        ELSE IF d.payload["scope"] = "access_token"
             THEN IF "sub" \notin DOMAIN d.payload THEN KeyError("sub")
                  ELSE IF d.payload["sub"] = NoneValue
                       THEN credentials_exception
                  ELSE Return(d.payload["sub"])
        ELSE credentials_exception

----------------------------------------------------------------------------
(* Persistence (repository/users.py) and the redis store. *)

NoToken == [parts |-> 0, claims |-> <<>>, mac |-> <<>>]

(* A UserAuth row, the fields the session core touches. *)
NewPrincipal(e) ==
    [email |-> e, confirmed |-> FALSE, avatar |-> NoneValue,
     refresh_token |-> NoToken]

(* get_user_by_email: the row, or None (<<>>). *)
get_user_by_email(e, d) == IF e \in DOMAIN d THEN <<d[e]>> ELSE <<>>

(* confirmed_email flipping the flag instead of setting it. *)
confirmed_email_flipped(e, d) == [d EXCEPT ![e].confirmed = ~@]

(* confirmed_email *)
confirmed_email(e, d) == [d EXCEPT ![e].confirmed = TRUE]

(* update_avatar *)
update_avatar(e, url, d) == [d EXCEPT ![e].avatar = url]

(* update_token *)
update_token(u, token, d) == [d EXCEPT ![u.email].refresh_token = token]

(* pickle.dumps / pickle.loads *)
pickle_dumps(u) == <<"pickle", u>>
pickle_loads(b) == b[2]

(* f"user:{email}" with the prefix dropped: every email shares one key. *)
CacheKeyShared(e) == "user:"

(* f"user:{email}" *)
CacheKey(e) == "user:" \o e

Keys == {CacheKey(e) : e \in Subjects}

NoTTL == -1

(* redis: a key is gone once the clock reaches its expiry. *)
ExpireKeys(c, t) ==
    [k \in DOMAIN c |->
        IF c[k] /= <<>> /\ c[k][1].expireAt /= NoTTL /\ c[k][1].expireAt <= t
        THEN <<>> ELSE c[k]]

(* r.get: the stored bytes, or None (<<>>). *)
r_get(c, k, t) == IF ExpireKeys(c, t)[k] = <<>> THEN <<>> ELSE <<c[k][1].val>>

(* r.set without ex/keepttl: stores the value and drops any expiry. An     *)
(* entry also records the clock at which it was stored (setAt).            *)
r_set(c, k, v, t) ==
    [c EXCEPT ![k] = <<[val |-> v, expireAt |-> NoTTL, setAt |-> t]>>]

(* r.expire: sets the expiry of an existing key, nothing for a missing one. *)
r_expire(c, k, secs, t) ==
    IF ExpireKeys(c, t)[k] = <<>> THEN c
    ELSE [c EXCEPT ![k] = <<[c[k][1] EXCEPT !.expireAt = t + secs]>>]

ConnectionError == [kind |-> "ConnectionError"]
NoOutcome == [kind |-> "none"]
NoUser == NewPrincipal(NoneValue)
NoResponse ==
    [proc |-> NoneValue, bearer |-> NoneValue, path |-> "none",
     result |-> NoOutcome]

ServerInit ==
    /\ db = [e \in Emails |-> NewPrincipal(e)]
    /\ cache = [k \in Keys |-> <<>>]
    /\ pc = [p \in Procs |-> "idle"]
    /\ bearer = [p \in Procs |-> NoneValue]
    /\ email = [p \in Procs |-> NoneValue]
    /\ user = [p \in Procs |-> NoUser]
    /\ response = NoResponse
    /\ commits = 0
    /\ commitAt = [e \in Emails |-> 0]

(* Nothing sent, nothing redeemed. *)
NoFault == [stage |-> "none", error |-> "none"]
NoMail ==
    [to |-> NoneValue, fault |-> NoFault, at |-> 0, result |-> NoOutcome,
     delivered |-> <<>>, logged |-> <<>>]
NoConfirm == [token |-> NoToken, at |-> 0, result |-> NoOutcome]

ConfirmInit ==
    /\ mail = NoMail
    /\ confirm = NoConfirm
    /\ redeems = 0

(* A calendar date (datetime.date). *)
Date(y, m, d) == [year |-> y, month |-> m, day |-> d]

(* The contacts table is empty and nothing has been read. *)
NoBirthdays == [read |-> FALSE, result |-> {}]

ContactsInit ==
    /\ contacts = {}
    /\ birthdays = NoBirthdays

ContactsIdle ==
    /\ today = Date(2023, 1, 1)
    /\ ContactsInit

----------------------------------------------------------------------------
(* The codec under arbitrary bearer strings. *)

Scopes == {"access_token", "refresh_token"}

(* Claim sets a presented token may carry at clock t: with and without sub   *)
(* and scope, expiring before, at and after t, or never.                     *)
ClaimSets(t) ==
    LET subs   == {<<>>} \cup {Dict("sub", s) : s \in {"a@x.io", NoneValue}}
        scopes == {<<>>} \cup {Dict("scope", s) : s \in Scopes}
        exps   == {<<>>} \cup {Dict("exp", e) : e \in {t - 1, t + 1}}
    IN  {DictUpdate(DictUpdate(a, b), c) : a \in subs, b \in scopes, c \in exps}

(* Correctly signed tokens over those claim sets; tokens whose signature     *)
(* does not verify (signed under another key, or claims altered after        *)
(* signing); and a string that is no token at all.                           *)
BadSignature(t) ==
    LET c == [sub |-> "a@x.io", exp |-> t + 1]
    IN  {jwt_encode(DictUpdate(c, Dict("scope", s)), WrongKey) : s \in Scopes}
        \cup {jwt_encode(c, WrongKey)}
        \cup {[jwt_encode(DictUpdate(c, Dict("scope", s)), SECRET_KEY)
                 EXCEPT !.claims = DictUpdate(@, Dict("sub", "b@x.io"))]
                : s \in Scopes}

PresentedTokens(t) ==
    {jwt_encode(c, SECRET_KEY) : c \in ClaimSets(t)}
    \cup BadSignature(t)
    \cup {Malformed}

NoMint == [fn |-> "none"]
NoCall == [op |-> "none"]

Deltas == {NoDelta} \cup {<<n>> : n \in 0..MaxDelta}

CodecInit ==
    /\ now = 0
    /\ ticks = 0
    /\ minted = NoMint
    /\ call = NoCall
    /\ ServerInit
    /\ ConfirmInit
    /\ ContactsIdle

Tick(d) ==
    /\ ticks < MaxTicks
    /\ now' = now + d
    /\ cache' = ExpireKeys(cache, now + d)
    /\ ticks' = ticks + 1
    /\ response' = NoResponse
    /\ UNCHANGED <<minted, call, db, pc, bearer, email, user, commits, commitAt>>
    /\ UNCHANGED <<confirmVars, contactVars>>

MintAccess(e, delta) ==
    /\ minted' = [fn |-> "create_access_token", email |-> e, delta |-> delta,
                  at |-> now,
                  token |-> create_access_token(Dict("sub", e), delta, now)]
    /\ call' = NoCall
    /\ UNCHANGED <<now, ticks>>
    /\ UNCHANGED serverVars
    /\ UNCHANGED <<confirmVars, contactVars>>

MintRefresh(e, delta) ==
    /\ minted' = [fn |-> "create_refresh_token", email |-> e, delta |-> delta,
                  at |-> now,
                  token |-> create_refresh_token(Dict("sub", e), delta, now)]
    /\ call' = NoCall
    /\ UNCHANGED <<now, ticks>>
    /\ UNCHANGED serverVars
    /\ UNCHANGED <<confirmVars, contactVars>>

MintEmail(e) ==
    /\ minted' = [fn |-> "create_email_token", email |-> e, delta |-> NoDelta,
                  at |-> now,
                  token |-> create_email_token(Dict("sub", e), now)]
    /\ call' = NoCall
    /\ UNCHANGED <<now, ticks>>
    /\ UNCHANGED serverVars
    /\ UNCHANGED <<confirmVars, contactVars>>

(* What is presented to the decoders: the token just minted (whichever      *)
(* decoder it was meant for), or, with nothing minted, any bearer string.   *)
(* The decoders read nothing but the token and the clock.                   *)
Presentable ==
    IF minted = NoMint THEN PresentedTokens(now) ELSE {minted.token}

CallCurrentUser(tok) ==
    /\ call' = [op |-> "get_current_user", token |-> tok, at |-> now,
                result |-> current_user_email(tok, now)]
    /\ UNCHANGED <<now, ticks, minted>>
    /\ UNCHANGED serverVars
    /\ UNCHANGED <<confirmVars, contactVars>>

CallDecodeRefresh(tok) ==
    /\ call' = [op |-> "decode_refresh_token", token |-> tok, at |-> now,
                result |-> decode_refresh_token(tok, now)]
    /\ UNCHANGED <<now, ticks, minted>>
    /\ UNCHANGED serverVars
    /\ UNCHANGED <<confirmVars, contactVars>>

CallGetEmail(tok) ==
    /\ call' = [op |-> "get_email_from_token", token |-> tok, at |-> now,
                result |-> get_email_from_token(tok, now)]
    /\ UNCHANGED <<now, ticks, minted>>
    /\ UNCHANGED serverVars
    /\ UNCHANGED <<confirmVars, contactVars>>

CodecNext ==
    \/ \E d \in CodecSteps : Tick(d)
    \/ \E e \in Subjects, delta \in Deltas : MintAccess(e, delta)
    \/ \E e \in Subjects, delta \in Deltas : MintRefresh(e, delta)
    \/ \E e \in Subjects : MintEmail(e)
    \/ \E tok \in Presentable : CallCurrentUser(tok)
    \/ \E tok \in Presentable : CallDecodeRefresh(tok)
    \/ \E tok \in Presentable : CallGetEmail(tok)

SpecCodec == CodecInit /\ [][CodecNext]_vars

----------------------------------------------------------------------------
(* The session resolver, Auth.get_current_user, one step per call that      *)
(* leaves the worker (redis, the database), and the operations around it.   *)

Set1(f, p, v) == [f EXCEPT ![p] = v]

(* Login issues the pair for the Principal's email. *)
LoginAccess(e, t) == create_access_token(Dict("sub", e), NoDelta, t)
LoginRefresh(e, t) == create_refresh_token(Dict("sub", e), NoDelta, t)

(* Refresh: decode_refresh_token, then a fresh access token for the decoded *)
(* email; <<>> when the refresh token is refused.                           *)
RefreshAccess(refresh, t) ==
    LET r == decode_refresh_token(refresh, t)
    IN  IF r.kind = "return"
        THEN <<create_access_token(Dict("sub", r.value), NoDelta, t)>>
        ELSE <<>>

(* The access token a request carries for email e: from a login now, from a *)
(* refresh now, or from a login so long ago that the token has expired.     *)
Vias == {"login", "refresh", "old_login"}

IssuedAccess(e, via, t) ==
    IF via = "login" THEN LoginAccess(e, t)
    ELSE IF via = "refresh" THEN RefreshAccess(LoginRefresh(e, t), t)[1]
    ELSE LoginAccess(e, t - ACCESS_DEFAULT_TTL - 1)

Responded(p, path, result) ==
    [proc |-> p, bearer |-> bearer[p], path |-> path, result |-> result]

(* The call has ended: its locals are gone. *)
Ended(p) ==
    /\ pc' = Set1(pc, p, "idle")
    /\ bearer' = Set1(bearer, p, NoneValue)
    /\ email' = Set1(email, p, NoneValue)
    /\ user' = Set1(user, p, NoUser)

(* Begin with a sliding expiry: a hit also renews the entry's time to live. *)
BeginSliding(p, e, via) ==
    /\ pc[p] = "idle"
    /\ LET r == current_user_email(IssuedAccess(e, via, now), now)
           v == r_get(cache, CacheKey(r.value), now)
           ended(path, result) ==
               /\ response' = [proc |-> p, bearer |-> e, path |-> path,
                               result |-> result]
               /\ UNCHANGED <<pc, bearer, email, user>>
       IN  IF r.kind /= "return" THEN ended("decode", r) /\ UNCHANGED cache
           ELSE IF v /= <<>>
                THEN /\ ended("hit", Return(pickle_loads(v[1])))
                     /\ cache' = r_expire(cache, CacheKey(r.value), CACHE_TTL, now)
           ELSE /\ pc' = Set1(pc, p, "lookup")
                /\ bearer' = Set1(bearer, p, e)
                /\ email' = Set1(email, p, r.value)
                /\ response' = NoResponse
                /\ UNCHANGED <<user, cache>>
    /\ UNCHANGED <<now, ticks, minted, call, db, commits, commitAt>>
    /\ UNCHANGED <<confirmVars, contactVars>>

(* lines 159-176, 182-184: decode the token, then r.get on the subject's    *)
(* key. A refused token raises; a hit is unpickled and returned; a miss     *)
(* goes on to the lookup.                                                   *)
Begin(p, e, via) ==
    /\ pc[p] = "idle"
    /\ LET r == current_user_email(IssuedAccess(e, via, now), now)
           v == r_get(cache, CacheKey(r.value), now)
           ended(path, result) ==
               /\ response' = [proc |-> p, bearer |-> e, path |-> path,
                               result |-> result]
               /\ UNCHANGED <<pc, bearer, email, user>>
       IN  IF r.kind /= "return" THEN ended("decode", r)
           ELSE IF v /= <<>> THEN ended("hit", Return(pickle_loads(v[1])))
           ELSE /\ pc' = Set1(pc, p, "lookup")
                /\ bearer' = Set1(bearer, p, e)
                /\ email' = Set1(email, p, r.value)
                /\ response' = NoResponse
                /\ UNCHANGED user
    /\ UNCHANGED <<now, ticks, minted, call, db, cache, commits, commitAt>>
    /\ UNCHANGED <<confirmVars, contactVars>>

(* lines 177-179: the lookup on a miss; no Principal is Unauthorized. *)
Lookup(p) ==
    /\ pc[p] = "lookup"
    /\ LET u == get_user_by_email(email[p], db)
       IN  IF u = <<>>
           THEN /\ response' = Responded(p, "miss", credentials_exception)
                /\ Ended(p)
           ELSE /\ user' = Set1(user, p, u[1])
                /\ pc' = Set1(pc, p, "set")
                /\ response' = NoResponse
                /\ UNCHANGED <<bearer, email>>
    /\ UNCHANGED <<now, ticks, minted, call, db, cache, commits, commitAt>>
    /\ UNCHANGED <<confirmVars, contactVars>>

(* line 180: r.set(f"user:{email}", pickle.dumps(user)) *)
CacheSet(p) ==
    /\ pc[p] = "set"
    /\ cache' = r_set(cache, CacheKey(email[p]), pickle_dumps(user[p]), now)
    /\ pc' = Set1(pc, p, "expire")
    /\ response' = NoResponse
    /\ UNCHANGED <<now, ticks, minted, call, db, bearer, email, user, commits,
                   commitAt>>
    /\ UNCHANGED <<confirmVars, contactVars>>

(* CacheExpire with the r.expire call left out. *)
CacheExpireForgotten(p) ==
    /\ pc[p] = "expire"
    /\ response' = Responded(p, "miss", Return(user[p]))
    /\ Ended(p)
    /\ UNCHANGED <<now, ticks, minted, call, db, cache, commits, commitAt>>
    /\ UNCHANGED <<confirmVars, contactVars>>

(* lines 181, 184: r.expire(f"user:{email}", 900); return user *)
CacheExpire(p) ==
    /\ pc[p] = "expire"
    /\ cache' = r_expire(cache, CacheKey(email[p]), CACHE_TTL, now)
    /\ response' = Responded(p, "miss", Return(user[p]))
    /\ Ended(p)
    /\ UNCHANGED <<now, ticks, minted, call, db, commits, commitAt>>
    /\ UNCHANGED <<confirmVars, contactVars>>

(* r.set or r.expire raises (the store is unreachable): the error leaves    *)
(* get_current_user, which catches only JWTError.                           *)
StoreFailure(p) ==
    /\ pc[p] \in {"set", "expire"}
    /\ response' = Responded(p, "miss", ConnectionError)
    /\ Ended(p)
    /\ UNCHANGED <<now, ticks, minted, call, db, cache, commits, commitAt>>
    /\ UNCHANGED <<confirmVars, contactVars>>

Committed(e) ==
    /\ commits' = commits + 1
    /\ commitAt' = [commitAt EXCEPT ![e] = now]
    /\ response' = NoResponse
    /\ UNCHANGED <<now, ticks, minted, call, cache, pc, bearer, email, user>>
    /\ UNCHANGED <<confirmVars, contactVars>>

(* repository confirmed_email commits. *)
ConfirmEmail(e) ==
    /\ e \in DOMAIN db
    /\ commits < MaxCommits
    /\ db' = confirmed_email(e, db)
    /\ Committed(e)

AvatarUrls == {"https://img/a.png"}

(* repository update_avatar commits. *)
UpdateAvatar(e, url) ==
    /\ e \in DOMAIN db
    /\ commits < MaxCommits
    /\ db' = update_avatar(e, url, db)
    /\ Committed(e)

(* Login: issues the access/refresh pair for the Principal's email and      *)
(* stores the refresh token on the Principal (update_token commits).        *)
Login(e) ==
    /\ e \in DOMAIN db
    /\ commits < MaxCommits
    /\ db' = update_token(db[e], LoginRefresh(e, now), db)
    /\ Committed(e)

Init ==
    /\ now = 0
    /\ ticks = 0
    /\ minted = NoMint
    /\ call = NoCall
    /\ ServerInit
    /\ ConfirmInit
    /\ ContactsIdle

Next ==
    \/ \E d \in ClockSteps : Tick(d)
    \/ \E p \in Procs : \E e \in Subjects : \E via \in Vias :
         Begin(p, e, via)
    \/ \E p \in Procs : Lookup(p)
    \/ \E p \in Procs : CacheSet(p)
    \/ \E p \in Procs : CacheExpire(p)
    \/ \E p \in Procs : StoreFailure(p)
    \/ \E e \in Emails : ConfirmEmail(e)
    \/ \E e \in Emails : \E url \in AvatarUrls : UpdateAvatar(e, url)
    \/ \E e \in Emails : Login(e)

Spec == Init /\ [][Next]_vars

----------------------------------------------------------------------------
(* The confirmation flow: services/email.py send_email hands out the        *)
(* verification token, the confirmation request redeems it.                 *)

Exception(name) == [kind |-> name]

(* What can go wrong inside send_email's try block, by the statement that   *)
(* raises: jwt.encode (line 44), MessageSchema (lines 45-50), and           *)
(* fm.send_message (line 53), which raises ConnectionErrors when the server *)
(* cannot be reached or logged in to, and other errors for a missing        *)
(* template or a message the server refuses.                                *)
Faults ==
    {NoFault,
     [stage |-> "mint", error |-> "JWSError"],
     [stage |-> "build", error |-> "ValidationError"],
     [stage |-> "send", error |-> "ConnectionErrors"],
     [stage |-> "send", error |-> "TemplateNotFound"],
     [stage |-> "send", error |-> "SMTPRecipientsRefused"]}

Usernames == {"ann"}
Hosts == {"http://host/"}

(* send_email: the except clause names ConnectionErrors only; that error is *)
(* printed and the function returns None, any other error leaves it.        *)
send_email(to, username, host, fault, t) ==
    LET token_verification == create_email_token(Dict("sub", to), t)
        message == [recipients |-> <<to>>, host |-> host, username |-> username,
                    token |-> token_verification]
    IN  IF fault = NoFault
        THEN [result |-> Return(NoneValue), delivered |-> <<message>>,
              logged |-> <<>>]
        ELSE IF fault.error = "ConnectionErrors"
        THEN [result |-> Return(NoneValue), delivered |-> <<>>,
              logged |-> <<fault.error>>]
        ELSE [result |-> Exception(fault.error), delivered |-> <<>>,
              logged |-> <<>>]

SendEmail(e, username, host, fault) ==
    /\ LET sent == send_email(e, username, host, fault, now)
       IN  mail' = [to |-> e, fault |-> fault, at |-> now,
                    result |-> sent.result, delivered |-> sent.delivered,
                    logged |-> sent.logged]
    /\ confirm' = NoConfirm
    /\ redeems' = 0
    /\ UNCHANGED <<now, ticks, minted, call>>
    /\ UNCHANGED serverVars
    /\ UNCHANGED contactVars

(* The confirmation request for the token of the delivered message:         *)
(* get_email_from_token, then confirmed_email for the email it returns.     *)
Redeem ==
    /\ mail.delivered /= <<>>
    /\ redeems < MaxRedeems
    /\ LET token == mail.delivered[1].token
           r == get_email_from_token(token, now)
       IN  /\ confirm' = [token |-> token, at |-> now, result |-> r]
           /\ IF r.kind = "return" /\ get_user_by_email(r.value, db) /= <<>>
              THEN /\ db' = confirmed_email(r.value, db)
                   /\ commitAt' = [commitAt EXCEPT ![r.value] = now]
              ELSE UNCHANGED <<db, commitAt>>
    /\ redeems' = redeems + 1
    /\ UNCHANGED <<now, ticks, minted, call, cache, pc, bearer, email, user,
                   response, commits, mail>>
    /\ UNCHANGED contactVars

ConfirmNext ==
    \/ \E d \in ConfirmSteps : Tick(d)
    \/ \E e \in Emails, u \in Usernames, h \in Hosts, f \in Faults :
         SendEmail(e, u, h, f)
    \/ Redeem
    \/ \E e \in Emails : \E url \in AvatarUrls : UpdateAvatar(e, url)
    \/ \E e \in Emails : Login(e)

SpecConfirm == Init /\ [][ConfirmNext]_vars

----------------------------------------------------------------------------
(* Contacts and their birthdays: routes/users.py read_birthdays over        *)
(* repository/users.py get_birthday.                                        *)

Years == {2023, 2024}

IsLeap(y) == (y % 4 = 0 /\ y % 100 /= 0) \/ y % 400 = 0

DaysInMonth(y, m) ==
    IF m = 2 THEN (IF IsLeap(y) THEN 29 ELSE 28)
    ELSE IF m \in {4, 6, 9, 11} THEN 30
    ELSE 31

(* Every date of the years: what date.today() can be. *)
Dates ==
    {d \in [year : Years, month : 1..12, day : 1..31] :
        d.day <= DaysInMonth(d.year, d.month)}

(* date + timedelta(days=n) *)
NextDay(d) ==
    IF d.day < DaysInMonth(d.year, d.month) THEN Date(d.year, d.month, d.day + 1)
    ELSE IF d.month < 12 THEN Date(d.year, d.month + 1, 1)
    ELSE Date(d.year + 1, 1, 1)

RECURSIVE AddDays(_, _)
AddDays(d, n) == IF n = 0 THEN d ELSE AddDays(NextDay(d), n - 1)

(* The birthday_date values a contact is created with. *)
BirthdayDates ==
    {Date(1990, 1, 3), Date(1990, 1, 30), Date(2000, 2, 29), Date(1990, 6, 15),
     Date(1990, 6, 20), Date(1990, 12, 28)}

(* get_birthday: every row of the table that passes the four comparisons. *)
get_birthday(start, end_date, rows) ==
    {u \in rows :
        /\ u.birthday_date.month >= start.month
        /\ u.birthday_date.day >= start.day
        /\ u.birthday_date.month <= end_date.month
        /\ u.birthday_date.day <= end_date.day}

(* read_birthdays: today and today + 7 days; the list is never None. *)
read_birthdays(t, rows) == get_birthday(t, AddDays(t, WINDOW_DAYS), rows)

BirthdaysInit ==
    /\ now = 0
    /\ ticks = 0
    /\ minted = NoMint
    /\ call = NoCall
    /\ ServerInit
    /\ ConfirmInit
    /\ today \in Dates
    /\ ContactsInit

(* create_users: a new row with the next id. *)
CreateContact(b) ==
    /\ Cardinality(contacts) < MaxContacts
    /\ contacts' = contacts \cup
                     {[id |-> Cardinality(contacts) + 1, birthday_date |-> b]}
    /\ birthdays' = NoBirthdays
    /\ UNCHANGED <<now, ticks, minted, call, today>>
    /\ UNCHANGED serverVars
    /\ UNCHANGED confirmVars

ReadBirthdays ==
    /\ birthdays' = [read |-> TRUE, result |-> read_birthdays(today, contacts)]
    /\ UNCHANGED <<now, ticks, minted, call, today, contacts>>
    /\ UNCHANGED serverVars
    /\ UNCHANGED confirmVars

BirthdaysNext ==
    \/ \E b \in BirthdayDates : CreateContact(b)
    \/ ReadBirthdays

SpecBirthdays == BirthdaysInit /\ [][BirthdaysNext]_vars

----------------------------------------------------------------------------
(* Properties of the codec (checked under SpecCodec). *)

ValidlySigned(tok) == tok.parts = 3 /\ tok.mac = Hmac(tok.claims, SECRET_KEY)
Unexpired(tok, t) == "exp" \in DOMAIN tok.claims => tok.claims["exp"] >= t
HasScope(tok, s) == "scope" \in DOMAIN tok.claims /\ tok.claims["scope"] = s
Called(op) == call.op = op
Rejected == call.result.kind /= "return"

(* C1: scope separation. get_current_user never accepts a validly signed,   *)
(* unexpired refresh-scoped token and decode_refresh_token never accepts an *)
(* access-scoped one; whatever either accepts carries its own scope.        *)
C1_ScopeSeparation ==
    /\ Called("get_current_user") =>
         /\ (ValidlySigned(call.token) /\ Unexpired(call.token, call.at)
               /\ HasScope(call.token, "refresh_token")) => Rejected
         /\ ~Rejected => HasScope(call.token, "access_token")
    /\ Called("decode_refresh_token") =>
         /\ (ValidlySigned(call.token) /\ Unexpired(call.token, call.at)
               /\ HasScope(call.token, "access_token")) => Rejected
         /\ ~Rejected => HasScope(call.token, "refresh_token")

(* An unexpired token from create_access_token was presented to             *)
(* decode_refresh_token and refused.                                        *)
C1_Witness ==
    /\ minted.fn = "create_access_token"
    /\ Called("decode_refresh_token")
    /\ call.token = minted.token
    /\ Unexpired(call.token, call.at)
    /\ Rejected

(* C2: every token get_current_user rejects is rejected with the one        *)
(* Unauthorized failure: 401, the same detail, WWW-Authenticate: Bearer.    *)
C2_RejectionIsUnauthorized ==
    (Called("get_current_user") /\ Rejected) => call.result = credentials_exception

(* The causes of rejection a refresh token can have: it does not verify, it *)
(* has expired, or it carries another scope.                                *)
BadExpiredOrWrongScope(tok, t) ==
    \/ ~ValidlySigned(tok)
    \/ ~Unexpired(tok, t)
    \/ ("scope" \in DOMAIN tok.claims /\ tok.claims["scope"] /= "refresh_token")

(* C3: every token decode_refresh_token rejects for a bad signature, for    *)
(* being expired or for a wrong scope surfaces as HTTP 401 carrying         *)
(* WWW-Authenticate: Bearer.                                                *)
C3_RefreshRejectionIsUnauthorized ==
    (/\ Called("decode_refresh_token")
     /\ BadExpiredOrWrongScope(call.token, call.at)) =>
        /\ Rejected
        /\ call.result.kind = "HTTPException"
        /\ call.result.status_code = HTTP_401_UNAUTHORIZED
        /\ BearerHeader \subseteq call.result.headers

(* C8: a token minted with an explicit ttl expires at issue time + ttl (the *)
(* defaults apply only when no ttl is given); the matching decoder accepts  *)
(* it with its subject before exp and rejects it after exp.                 *)
MatchingOp ==
    IF minted.fn = "create_access_token" THEN "get_current_user"
    ELSE "decode_refresh_token"

C8_TokenRoundTrip ==
    minted.fn \in {"create_access_token", "create_refresh_token"} =>
        /\ minted.delta /= NoDelta =>
             minted.token.claims["exp"] = minted.at + minted.delta[1]
        /\ minted.delta = NoDelta =>
             minted.token.claims["exp"] = minted.at +
                 (IF minted.fn = "create_access_token"
                  THEN ACCESS_DEFAULT_TTL ELSE REFRESH_DEFAULT_TTL)
        /\ (Called(MatchingOp) /\ call.token = minted.token) =>
             /\ call.at < minted.token.claims["exp"] =>
                  call.result = Return(minted.email)
             /\ call.at > minted.token.claims["exp"] => Rejected

(* C10: every failure of get_email_from_token is the 422 failure.           *)
C10_RedeemFailureIsUnprocessable ==
    (Called("get_email_from_token") /\ Rejected) =>
        /\ call.result.kind = "HTTPException"
        /\ call.result.status_code = HTTP_422_UNPROCESSABLE_ENTITY

(* C13: get_email_from_token applies no scope check. Every validly signed,  *)
(* unexpired token whose sub is an email is redeemed with that email,       *)
(* whether it carries scope access_token, scope refresh_token or no scope.  *)
C13_RedeemIgnoresScope ==
    (/\ Called("get_email_from_token")
     /\ ValidlySigned(call.token)
     /\ Unexpired(call.token, call.at)
     /\ "sub" \in DOMAIN call.token.claims
     /\ call.token.claims["sub"] /= NoneValue)
    => call.result = Return(call.token.claims["sub"])

(* An unexpired token from create_access_token or create_refresh_token was  *)
(* presented to get_email_from_token, which returned its email.             *)
C13_Witness ==
    /\ minted.fn \in {"create_access_token", "create_refresh_token"}
    /\ Called("get_email_from_token")
    /\ call.token = minted.token
    /\ "scope" \in DOMAIN call.token.claims
    /\ call.result = Return(minted.email)

----------------------------------------------------------------------------
(* Properties of the session resolver (checked under Spec). *)

Entry(e) == cache[CacheKey(e)]
Stepped(p, from, to) == pc[p] = from /\ pc'[p] = to

(* C4: the miss path. The lookup alone decides: no Principal ends the call  *)
(* with Unauthorized and the cache untouched; a Principal goes on to the    *)
(* write-through, which stores that snapshot under "user:" + email, touches *)
(* no other key, gives the entry a 900-second expiry and returns the same   *)
(* snapshot. (r.expire has no effect on a key that has expired meanwhile.)  *)
C4_MissPath ==
    [][\A p \in Procs :
        LET k == "user:" \o email[p]
        IN  /\ (pc[p] = "lookup" /\ pc'[p] /= "lookup") =>
                 IF email[p] \in DOMAIN db
                 THEN /\ pc'[p] = "set"
                      /\ user'[p] = db[email[p]]
                      /\ response' = NoResponse
                      /\ cache' = cache
                 ELSE /\ pc'[p] = "idle"
                      /\ response'.proc = p
                      /\ response'.result = credentials_exception
                      /\ cache' = cache
            /\ Stepped(p, "set", "expire") =>
                 /\ cache'[k] = <<[val |-> <<"pickle", user[p]>>,
                                  expireAt |-> NoTTL, setAt |-> now]>>
                 /\ \A j \in Keys \ {k} : cache'[j] = cache[j]
            /\ (Stepped(p, "expire", "idle")
                  /\ response'.result.kind /= "ConnectionError") =>
                 /\ response'.proc = p
                 /\ response'.result = Return(user[p])
                 /\ \A j \in Keys \ {k} : cache'[j] = cache[j]
                 /\ IF cache[k] = <<>> THEN cache'[k] = <<>>
                    ELSE cache'[k] =
                           <<[cache[k][1] EXCEPT !.expireAt = now + CACHE_TTL]>>
      ]_vars

(* A miss for a known email has just returned the Principal, and its entry  *)
(* is in the cache with 900 seconds to live.                                *)
C4_Witness ==
    /\ response.path = "miss"
    /\ response.result.kind = "return"
    /\ Entry(response.bearer) /= <<>>
    /\ Entry(response.bearer)[1].expireAt = now + CACHE_TTL
    /\ Entry(response.bearer)[1].val = <<"pickle", response.result.value>>

(* C5: the hit path. A hit returns exactly the stored snapshot and changes  *)
(* nothing: no lookup, no rewrite of the value, no new time to live.        *)
C5_HitFrame ==
    [][(response' /= NoResponse /\ response'.path = "hit") =>
        LET k == "user:" \o response'.bearer
        IN  /\ cache[k] /= <<>>
            /\ response'.result = Return(cache[k][1].val[2])
            /\ cache' = cache
            /\ db' = db
            /\ pc' = pc
            /\ user' = user
      ]_vars

(* A hit was served at a later clock than the entry was stored at. *)
C5_Witness ==
    /\ response.path = "hit"
    /\ response.result.kind = "return"
    /\ Entry(response.bearer) /= <<>>
    /\ Entry(response.bearer)[1].setAt < now
    /\ Entry(response.bearer)[1].expireAt /= NoTTL

(* C6: an entry stored by the miss path is absent from 900 seconds after it *)
(* was stored (and, no worker being between r.set and r.expire on its key,  *)
(* whatever happened to the request that stored it).                        *)
C6_EntryLifetime ==
    \A e \in Subjects :
        (/\ Entry(e) /= <<>>
         /\ \A p \in Procs : ~(pc[p] = "expire" /\ email[p] = e))
        => now < Entry(e)[1].setAt + CACHE_TTL

(* C7: a resolve that completes more than 900 seconds after the last commit *)
(* to its Principal returns the Principal as committed.                     *)
C7_StalenessBound ==
    (/\ response.result.kind = "return"
     /\ response.bearer \in DOMAIN db
     /\ now > commitAt[response.bearer] + CACHE_TTL)
    => response.result.value = db[response.bearer]

(* C9: a resolve returns the Principal whose email its token was issued     *)
(* for, and the entry under "user:" + e is a snapshot of the Principal with *)
(* email e.                                                                 *)
C9_IdentityPreserved ==
    /\ response.result.kind = "return" =>
         response.result.value.email = response.bearer
    /\ \A e \in Subjects :
         Entry(e) /= <<>> =>
            /\ Entry(e)[1].val[2].email = e
            /\ e \in DOMAIN db

(* A resolve has returned a Principal while another worker is in the middle *)
(* of a resolve for a different email.                                      *)
C9_Witness ==
    /\ response.result.kind = "return"
    /\ \E q \in Procs : pc[q] /= "idle" /\ email[q] /= response.bearer

----------------------------------------------------------------------------
(* Properties of the confirmation flow (checked under SpecConfirm). *)

(* C11: send_email never fails: whatever goes wrong while it mints the      *)
(* token, builds the message or sends it, it returns normally.              *)
C11_SendEmailNeverFails ==
    mail /= NoMail => mail.result = Return(NoneValue)

(* C12: confirmation is repeatable and idempotent. Every redemption of an   *)
(* unexpired verification token issued for an existing email returns that   *)
(* email and leaves the Principal confirmed with no other field changed;    *)
(* and a confirmed Principal stays confirmed, whatever step is taken.       *)
C12_ConfirmationIdempotent ==
    [][/\ redeems' = redeems + 1 =>
            LET token == mail.delivered[1].token
                sub == token.claims["sub"]
            IN  (sub \in DOMAIN db /\ now < token.claims["exp"]) =>
                    /\ confirm'.result = Return(sub)
                    /\ db' = [db EXCEPT ![sub].confirmed = TRUE]
        /\ \A e \in DOMAIN db : db[e].confirmed => db'[e].confirmed
      ]_vars

(* The same token has been redeemed a second time, later than it was sent,  *)
(* and the redemption returned the email of a confirmed Principal.          *)
C12_Witness ==
    /\ redeems = 2
    /\ confirm.at > mail.at
    /\ confirm.result.kind = "return"
    /\ db[confirm.result.value].confirmed

----------------------------------------------------------------------------
(* Properties of the birthday query (checked under SpecBirthdays). *)

(* The birthday (month, day) falls on one of the dates t .. t + 7 days. *)
InWindow(b, t) ==
    \E k \in 0..WINDOW_DAYS :
        LET d == AddDays(t, k) IN d.month = b.month /\ d.day = b.day

(* C14: read_birthdays returns exactly the contacts whose birthday falls on *)
(* one of the dates from today through today + 7 days, also when the window *)
(* crosses a month or the year boundary.                                    *)
C14_BirthdayWindow ==
    birthdays.read =>
        birthdays.result = {u \in contacts : InWindow(u.birthday_date, today)}

====
